---------------------------- MODULE Spec2Model ----------------------------
(***************************************************************************)
(* A model of cubev1.c: the dual-depth framebuffer (buf_clear, put_pixel), *)
(* the compositor (buf_render), the camera projection (project), the line  *)
(* walk (draw_line), the fragment writes of draw_line and fill_tri, and    *)
(* the culling and silhouette steps of render_cube.                        *)
(*                                                                         *)
(* Numbers.  The C code computes in double.  Depths and camera-space z are *)
(* kept here in fixed point, ZUnit steps per 1.0 (one step = 0.005), so    *)
(* that the biases 0.01 and the window -0.5 / -100.0 are exact integers.   *)
(* Projected screen coordinates are kept in half sub-pixels.  C's integer  *)
(* division and remainder truncate toward zero (CDiv, CMod).               *)
(***************************************************************************)
EXTENDS Integers, Naturals, Sequences, FiniteSets, TLC

VARIABLES
    buf_width, buf_height,      \* buf.width, buf.height
    top_color, bot_color,       \* buf.top_color[], buf.bot_color[]
    top_depth, bot_depth,       \* buf.top_depth[], buf.bot_depth[]
    written,                    \* history: in-bounds put_pixel calls since buf_clear
    nput,                       \* history: fragments issued since buf_clear
    rn,                         \* buf_render: its position and its locals
    term,                       \* the terminal's colors in effect
    cell_out,                   \* buf_render: what the last cell printed
    rot,                        \* rot_x, rot_y, rot_z, in quarter turns
    verts,                      \* render_cube: verts[8]
    faces,                      \* render_cube: faces[0..num_vis-1]
    cube,                       \* render_cube: its position and loop indices
    drawn,                      \* render_cube: the edges handed to draw_line
    zoom,                       \* zoom, in hundredths
    ln,                         \* draw_line: its position and its locals
    frag                        \* draw_line: the put_pixel call of the last step

fbVars     == <<top_color, bot_color, top_depth, bot_depth>>
dimVars    == <<buf_width, buf_height>>
histVars   == <<written, nput>>
renderVars == <<rn, term, cell_out>>
cubeVars   == <<rot, verts, faces, cube, drawn>>
lineVars   == <<zoom, ln, frag>>
vars == <<buf_width, buf_height, top_color, bot_color, top_depth, bot_depth,
          written, nput, rn, term, cell_out, rot, verts, faces, cube, drawn,
          zoom, ln, frag>>

----------------------------------------------------------------------------
(* C arithmetic *)

Abs(a) == IF a < 0 THEN -a ELSE a

Max(a, b) == IF a > b THEN a ELSE b

Min(a, b) == IF a < b THEN a ELSE b

\* C's a / b for b > 0: truncation toward zero
CDiv(a, b) == IF a >= 0 THEN a \div b ELSE -((-a) \div b)

\* C's a % b for b > 0: the sign of the remainder follows the dividend
CMod(a, b) == a - b * CDiv(a, b)

----------------------------------------------------------------------------
(* Fixed point *)

\* steps per 1.0 of depth / camera-space z
ZUnit == 200

\* the bottom-slot bias 0.01 of put_pixel
Bias == 2

\* the +0.01 that draw_line adds to the depth of its fragments
LineBias == 2

\* buf_clear's depth -1e10 and buf_render's threshold -1e9.  TLC's integers
\* are 32 bits wide, so the two stand ten times closer than in the code; every
\* depth a fragment can carry lies in (-100.0, -0.5 + 0.01], far above both.
ClearDepth == -2000000000

SetThreshold == -200000000

----------------------------------------------------------------------------
(* Colors *)

rgb(r, g, b) == [r |-> r, g |-> g, b |-> b]

Black == rgb(0, 0, 0)

White == rgb(255, 255, 255)

FACE_COLORS ==
    <<rgb(255, 0, 128), rgb(0, 128, 255), rgb(0, 255, 80),
      rgb(255, 128, 0), rgb(200, 0, 255), rgb(255, 220, 0)>>

\* shade, the brightness in percent; (uint8_t) truncates toward zero
shade(c, brightness) ==
    LET b == IF brightness < 0 THEN 0
             ELSE IF brightness > 100 THEN 100 ELSE brightness
    IN  rgb((c.r * b) \div 100, (c.g * b) \div 100, (c.b * b) \div 100)

----------------------------------------------------------------------------
(* The framebuffer *)

Cells == 0 .. (buf_width * buf_height - 1)

\* buf_clear
buf_clear ==
    /\ top_color' = [i \in Cells |-> Black]
    /\ bot_color' = [i \in Cells |-> Black]
    /\ top_depth' = [i \in Cells |-> ClearDepth]
    /\ bot_depth' = [i \in Cells |-> ClearDepth]

\* put_pixel without the depth tests: the last write wins
put_pixel_untested(x, y, is_top, col, depth) ==
    IF x < 0 \/ x >= buf_width \/ y < 0 \/ y >= buf_height
    THEN UNCHANGED fbVars
    ELSE LET idx == y * buf_width + x IN
         IF is_top # 0
         THEN /\ top_color' = [top_color EXCEPT ![idx] = col]
              /\ top_depth' = [top_depth EXCEPT ![idx] = depth]
              /\ UNCHANGED <<bot_color, bot_depth>>
         ELSE /\ bot_color' = [bot_color EXCEPT ![idx] = col]
              /\ bot_depth' = [bot_depth EXCEPT ![idx] = depth]
              /\ UNCHANGED <<top_color, top_depth>>

\* put_pixel with >= for > on the top slot
put_pixel_top_ge(x, y, is_top, col, depth) ==
    IF x < 0 \/ x >= buf_width \/ y < 0 \/ y >= buf_height
    THEN UNCHANGED fbVars
    ELSE LET idx == y * buf_width + x IN
         IF is_top # 0
         THEN /\ IF depth >= top_depth[idx]
                 THEN /\ top_color' = [top_color EXCEPT ![idx] = col]
                      /\ top_depth' = [top_depth EXCEPT ![idx] = depth]
                 ELSE UNCHANGED <<top_color, top_depth>>
              /\ UNCHANGED <<bot_color, bot_depth>>
         ELSE /\ IF depth > bot_depth[idx] - Bias
                 THEN /\ bot_color' = [bot_color EXCEPT ![idx] = col]
                      /\ bot_depth' = [bot_depth EXCEPT ![idx] = depth]
                 ELSE UNCHANGED <<bot_color, bot_depth>>
              /\ UNCHANGED <<top_color, top_depth>>

\* put_pixel with the two depth tests exchanged: the bias on the top slot
put_pixel_swapped(x, y, is_top, col, depth) ==
    IF x < 0 \/ x >= buf_width \/ y < 0 \/ y >= buf_height
    THEN UNCHANGED fbVars
    ELSE LET idx == y * buf_width + x IN
         IF is_top # 0
         THEN /\ IF depth > top_depth[idx] - Bias
                 THEN /\ top_color' = [top_color EXCEPT ![idx] = col]
                      /\ top_depth' = [top_depth EXCEPT ![idx] = depth]
                 ELSE UNCHANGED <<top_color, top_depth>>
              /\ UNCHANGED <<bot_color, bot_depth>>
         ELSE /\ IF depth > bot_depth[idx]
                 THEN /\ bot_color' = [bot_color EXCEPT ![idx] = col]
                      /\ bot_depth' = [bot_depth EXCEPT ![idx] = depth]
                 ELSE UNCHANGED <<bot_color, bot_depth>>
              /\ UNCHANGED <<top_color, top_depth>>

\* put_pixel
put_pixel(x, y, is_top, col, depth) ==
    IF x < 0 \/ x >= buf_width \/ y < 0 \/ y >= buf_height
    THEN UNCHANGED fbVars
    ELSE LET idx == y * buf_width + x IN
         IF is_top # 0
         THEN /\ IF depth > top_depth[idx]
                 THEN /\ top_color' = [top_color EXCEPT ![idx] = col]
                      /\ top_depth' = [top_depth EXCEPT ![idx] = depth]
                 ELSE UNCHANGED <<top_color, top_depth>>
              /\ UNCHANGED <<bot_color, bot_depth>>
         ELSE /\ IF depth > bot_depth[idx] - Bias
                 THEN /\ bot_color' = [bot_color EXCEPT ![idx] = col]
                      /\ bot_depth' = [bot_depth EXCEPT ![idx] = depth]
                 ELSE UNCHANGED <<bot_color, bot_depth>>
              /\ UNCHANGED <<top_color, top_depth>>

\* history of a fragment at sub-pixel row y: the put_pixel call it made, when
\* the cell is in bounds
Logged(x, y, cy, is_top, col, depth) ==
    IF x < 0 \/ x >= buf_width \/ cy < 0 \/ cy >= buf_height
    THEN {}
    ELSE {[idx |-> cy * buf_width + x, top |-> is_top, col |-> col,
           depth |-> depth, y |-> y]}

\* the sub-pixel row split of draw_line and fill_tri: cell row and slot
CellRow(y) == CDiv(y, 2)

IsTop(y) == IF CMod(y, 2) = 0 THEN 1 ELSE 0

\* one fragment of draw_line (the loop body's write) at sub-pixel (x, y)
line_fragment(x, y, col, z) ==
    LET py == CellRow(y)
        is_top == IsTop(y)
    IN  IF py >= 0 /\ py < buf_height
        THEN /\ put_pixel(x, py, is_top, col, z + LineBias)
             /\ written' = written \cup Logged(x, y, py, is_top, col, z + LineBias)
        ELSE UNCHANGED <<top_color, bot_color, top_depth, bot_depth, written>>

\* one fragment of fill_tri (the inner loop's write) at sub-pixel (x, y)
tri_fragment(x, y, shaded, z) ==
    LET cell_y == CellRow(y)
        is_top == IsTop(y)
    IN  IF cell_y >= 0 /\ cell_y < buf_height
        THEN /\ put_pixel(x, cell_y, is_top, shaded, z)
             /\ written' = written \cup Logged(x, y, cell_y, is_top, shaded, z)
        ELSE UNCHANGED <<top_color, bot_color, top_depth, bot_depth, written>>


----------------------------------------------------------------------------
(* Values the other parts hold while one part runs *)

IdleRender ==
    [pc |-> "idle", x |-> 0, y |-> 0, last_fg |-> White, last_bg |-> White,
     bg_is_default |-> 1]

\* the terminal's default color: no RGB value
DefaultColor == rgb(-1, -1, -1)

IdleTerm == [fg |-> DefaultColor, bg |-> DefaultColor]

NoCell == [idx |-> -1, glyph |-> "", instrs |-> <<>>, before |-> IdleTerm]

IdleCube == [pc |-> "idle", i |-> 0, e |-> 0, tris |-> <<>>]

IdleLine ==
    [pc |-> "idle", p0 |-> <<0, 0, 0>>, p1 |-> <<0, 0, 0>>, ok0 |-> 0, ok1 |-> 0,
     x0 |-> 0, y0 |-> 0, z0 |-> 0, x1 |-> 0, y1 |-> 0, z1 |-> 0,
     dx |-> 0, dy |-> 0, sx |-> 0, sy |-> 0, err |-> 0,
     x |-> 0, y |-> 0, z |-> 0, nsteps |-> 0]

NoFrag == [called |-> 0, x |-> 0, py |-> 0, is_top |-> 0, depth |-> 0]

\* zoom as the program starts: 0.6
DefaultZoom == 60

RenderIdle == rn = IdleRender /\ term = IdleTerm /\ cell_out = NoCell

CubeIdle ==
    /\ rot = <<0, 0, 0>>
    /\ verts = <<>>
    /\ faces = <<>>
    /\ cube = IdleCube
    /\ drawn = {}

LineIdle == zoom = DefaultZoom /\ ln = IdleLine /\ frag = NoFrag

\* buf_init(w, h) followed by the frame's buf_clear
BufReady(w, h) ==
    /\ buf_width = w
    /\ buf_height = h
    /\ top_color = [i \in 0 .. (w * h - 1) |-> Black]
    /\ bot_color = [i \in 0 .. (w * h - 1) |-> Black]
    /\ top_depth = [i \in 0 .. (w * h - 1) |-> ClearDepth]
    /\ bot_depth = [i \in 0 .. (w * h - 1) |-> ClearDepth]
    /\ written = {}
    /\ nput = 0

----------------------------------------------------------------------------
(* SpecFB: a frame of fragments written into the framebuffer *)

\* the framebuffer of SpecFB
FbW == 2

FbH == 1

\* fragments per frame
MaxPuts == 2

\* columns and sub-pixel rows a line walk visits: the screen and its surround
LineXs == -1 .. buf_width

LineYs == -2 .. (2 * buf_height + 1)

\* columns and sub-pixel rows of fill_tri's clamped bounding box
TriXs == 0 .. (buf_width - 1)

TriYs == 0 .. (2 * buf_height - 1)

\* fragment depths: z = -5.015, -5.010, -5.000
FragZ == {-1003, -1002, -1000}

\* fill_tri's shaded color: face 0 at full brightness
TriShades == {shade(FACE_COLORS[1], 100)}

FragColors == TriShades \cup {White}

FragDepths == FragZ \cup {z + LineBias : z \in FragZ}

InitFB ==
    /\ BufReady(FbW, FbH)
    /\ RenderIdle
    /\ CubeIdle
    /\ LineIdle

\* main: buf_clear at the start of a frame
BufClear ==
    /\ buf_clear
    /\ written' = {}
    /\ nput' = 0
    /\ UNCHANGED <<dimVars, renderVars, cubeVars, lineVars>>

\* draw_line, one iteration: render_cube draws its lines in white
LineFragment ==
    /\ nput < MaxPuts
    /\ \E x \in LineXs, y \in LineYs, z \in FragZ : line_fragment(x, y, White, z)
    /\ nput' = nput + 1
    /\ UNCHANGED <<dimVars, renderVars, cubeVars, lineVars>>

\* fill_tri, one accepted sub-pixel of the clamped bounding box
TriFragment ==
    /\ nput < MaxPuts
    /\ \E x \in TriXs, y \in TriYs, c \in TriShades, z \in FragZ :
           tri_fragment(x, y, c, z)
    /\ nput' = nput + 1
    /\ UNCHANGED <<dimVars, renderVars, cubeVars, lineVars>>

NextFB == BufClear \/ LineFragment \/ TriFragment

SpecFB == InitFB /\ [][NextFB]_vars

\* the fragments written to a slot of a cell since buf_clear
SlotFrags(idx, top) == {f \in written : f.idx = idx /\ f.top = top}

----------------------------------------------------------------------------
(* C1 *)

\* C1: a top-slot put_pixel on an in-bounds cell leaves the cell's top color
\* and top depth as they are when its depth is equal to or lower than the
\* stored top depth, and replaces both when its depth is strictly greater; the
\* bottom arrays and every other cell stay as they are.
C1_TopDepthTest ==
    [][\A x \in TriXs, y \in 0 .. (buf_height - 1), col \in FragColors,
          d \in FragDepths :
          put_pixel(x, y, 1, col, d) =>
              LET idx == y * buf_width + x IN
              /\ d <= top_depth[idx] =>
                     top_color'[idx] = top_color[idx] /\ top_depth'[idx] = top_depth[idx]
              /\ d > top_depth[idx] =>
                     top_color'[idx] = col /\ top_depth'[idx] = d
              /\ bot_color' = bot_color /\ bot_depth' = bot_depth
              /\ \A j \in Cells \ {idx} :
                     top_color'[j] = top_color[j] /\ top_depth'[j] = top_depth[j]
      ]_vars

\* a top slot that was offered two colors at one depth, the second write
\* finding its own depth stored
C1_Witness ==
    \E idx \in Cells :
        \E f, g \in SlotFrags(idx, 1) :
            f.depth = g.depth /\ f.col # g.col /\ f.depth = top_depth[idx]

----------------------------------------------------------------------------
(* C2 *)

\* the slot's effect of a bottom write: replaced by (col, d), or kept
BotReplaced(idx, col, d) ==
    /\ bot_color' = [bot_color EXCEPT ![idx] = col]
    /\ bot_depth' = [bot_depth EXCEPT ![idx] = d]

BotKept == bot_color' = bot_color /\ bot_depth' = bot_depth

\* C2 as stated: a bottom-slot put_pixel replaces the stored bottom color and
\* depth when its depth is no more than 0.01 below the stored bottom depth
\* (exactly 0.01 below included), and leaves them when it is more than 0.01
\* below.
C2_BiasInclusive ==
    [][\A x \in TriXs, y \in 0 .. (buf_height - 1), col \in FragColors,
          d \in FragDepths :
          put_pixel(x, y, 0, col, d) =>
              LET idx == y * buf_width + x IN
              /\ bot_depth[idx] - d <= Bias => BotReplaced(idx, col, d)
              /\ bot_depth[idx] - d > Bias => BotKept
      ]_vars

\* C2 amended: a bottom-slot put_pixel replaces the stored bottom color and
\* depth when its depth is less than 0.01 below the stored bottom depth
\* (depth > stored - 0.01), and leaves them when it is 0.01 or more below.
C2_BiasStrict ==
    [][\A x \in TriXs, y \in 0 .. (buf_height - 1), col \in FragColors,
          d \in FragDepths :
          put_pixel(x, y, 0, col, d) =>
              LET idx == y * buf_width + x IN
              /\ bot_depth[idx] - d < Bias => BotReplaced(idx, col, d)
              /\ bot_depth[idx] - d >= Bias => BotKept
      ]_vars

\* a bottom slot that was offered a depth and the depth exactly 0.01 below it,
\* and holds the nearer one
C2_Witness ==
    \E idx \in Cells :
        \E f, g \in SlotFrags(idx, 0) :
            f.depth - g.depth = Bias /\ bot_depth[idx] = f.depth

----------------------------------------------------------------------------
(* C3 *)

\* C3: a fragment of draw_line or fill_tri whose column is outside
\* [0, width) or whose sub-pixel row is outside [0, 2*height) changes none of
\* the four framebuffer arrays.
C3_OutOfBoundsDropped ==
    [][\A x \in LineXs, y \in LineYs, c \in FragColors, z \in FragZ :
          /\ x < 0 \/ x >= buf_width \/ y < 0 \/ y >= 2 * buf_height
          /\ line_fragment(x, y, c, z) \/ tri_fragment(x, y, c, z)
          => UNCHANGED fbVars
      ]_vars

----------------------------------------------------------------------------
(* C9 *)

\* a slot holds the nearest of the fragments written to it
HoldsNearest(F, color, depth) ==
    IF F = {}
    THEN depth = ClearDepth /\ color = Black
    ELSE /\ \A f \in F : f.depth <= depth
         /\ \E f \in F : f.depth = depth /\ f.col = color

\* a slot holds one of the fragments written to it
HoldsOneOf(F, color, depth) ==
    IF F = {}
    THEN depth = ClearDepth /\ color = Black
    ELSE \E f \in F : f.depth = depth /\ f.col = color

\* C9 as stated: whatever the order of the put_pixel calls since buf_clear,
\* every slot, top and bottom alike, holds the greatest depth written to it
\* and the color of a fragment of that depth.
C9_EverySlotNearest ==
    \A idx \in Cells :
        /\ HoldsNearest(SlotFrags(idx, 1), top_color[idx], top_depth[idx])
        /\ HoldsNearest(SlotFrags(idx, 0), bot_color[idx], bot_depth[idx])

\* C9 amended: whatever the order of the put_pixel calls since buf_clear,
\* every top slot holds the greatest depth written to it and the color of a
\* fragment of that depth; a bottom slot holds the depth and color of one of
\* the fragments written to it, not always the nearest.
C9_TopSlotNearest ==
    \A idx \in Cells :
        /\ HoldsNearest(SlotFrags(idx, 1), top_color[idx], top_depth[idx])
        /\ HoldsOneOf(SlotFrags(idx, 0), bot_color[idx], bot_depth[idx])

\* a top slot that was offered two different depths
C9_Witness ==
    \E idx \in Cells :
        \E f, g \in SlotFrags(idx, 1) :
            f.depth < g.depth /\ top_depth[idx] = g.depth

----------------------------------------------------------------------------
(* SpecRender: buf_render over a rasterized framebuffer *)

\* the framebuffer of SpecRender
ScrW == 2

ScrH == 2

\* colors a slot can hold after rasterization: a line's and a face's
RenderColors == {White, FACE_COLORS[1]}

\* a slot after rasterization: as buf_clear left it, or written at z = -5.0
ClearedSlot == [col |-> Black, depth |-> ClearDepth]

SlotValues == {ClearedSlot} \cup {[col |-> c, depth |-> -1000] : c \in RenderColors}

\* escape sequences: ESC[0m, ESC[49m, ESC[38;2;r;g;bm, ESC[48;2;r;g;bm
EscReset == [op |-> "reset", c |-> DefaultColor]

EscBgDefault == [op |-> "bg_default", c |-> DefaultColor]

EscFg(c) == [op |-> "fg", c |-> c]

EscBg(c) == [op |-> "bg", c |-> c]

\* what the terminal does with one escape sequence
TermApply(t, ins) ==
    CASE ins.op = "reset"      -> [fg |-> DefaultColor, bg |-> DefaultColor]
      [] ins.op = "bg_default" -> [t EXCEPT !.bg = DefaultColor]
      [] ins.op = "fg"         -> [t EXCEPT !.fg = ins.c]
      [] ins.op = "bg"         -> [t EXCEPT !.bg = ins.c]

RECURSIVE TermApplyAll(_, _)
TermApplyAll(t, seq) ==
    IF seq = <<>> THEN t ELSE TermApplyAll(TermApply(t, Head(seq)), Tail(seq))

\* the channel-wise comparison of buf_render
ColorDiffers(a, b) == a.r # b.r \/ a.g # b.g \/ a.b # b.b

InitRender ==
    /\ buf_width = ScrW
    /\ buf_height = ScrH
    /\ \E top \in [0 .. (ScrW * ScrH - 1) -> SlotValues],
          bot \in [0 .. (ScrW * ScrH - 1) -> SlotValues] :
           /\ top_color = [i \in 0 .. (ScrW * ScrH - 1) |-> top[i].col]
           /\ top_depth = [i \in 0 .. (ScrW * ScrH - 1) |-> top[i].depth]
           /\ bot_color = [i \in 0 .. (ScrW * ScrH - 1) |-> bot[i].col]
           /\ bot_depth = [i \in 0 .. (ScrW * ScrH - 1) |-> bot[i].depth]
    /\ written = {}
    /\ nput = 0
    /\ RenderIdle
    /\ CubeIdle
    /\ LineIdle

\* buf_render, entry: ESC[H ESC[0m and the locals
RenderBegin ==
    /\ rn.pc = "idle"
    /\ term' = TermApply(term, EscReset)
    /\ rn' = [pc |-> "cells", x |-> 0, y |-> 0, last_fg |-> White,
              last_bg |-> White, bg_is_default |-> 1]
    /\ cell_out' = NoCell
    /\ UNCHANGED <<dimVars, fbVars, histVars, cubeVars, lineVars>>

\* buf_render, the body of the inner loop for cell (rn.x, rn.y)
RenderCell ==
    /\ rn.pc = "cells"
    /\ rn.y < buf_height
    /\ rn.x < buf_width
    /\ LET idx == rn.y * buf_width + rn.x
           top_set == top_depth[idx] > SetThreshold
           bot_set == bot_depth[idx] > SetThreshold
           t_col == top_color[idx]
           b_col == bot_color[idx]
           to_default == IF rn.bg_is_default = 0 THEN <<EscBgDefault>> ELSE <<>>
           fg(c) == IF ColorDiffers(c, rn.last_fg) THEN <<EscFg(c)>> ELSE <<>>
           bg(c) == IF ColorDiffers(c, rn.last_bg) THEN <<EscBg(c)>> ELSE <<>>
           new_fg(c) == IF ColorDiffers(c, rn.last_fg) THEN c ELSE rn.last_fg
           new_bg(c) == IF ColorDiffers(c, rn.last_bg) THEN c ELSE rn.last_bg
           instrs ==
               IF ~top_set /\ ~bot_set THEN to_default
               ELSE IF top_set /\ ~bot_set THEN to_default \o fg(t_col)
               ELSE IF ~top_set /\ bot_set THEN to_default \o fg(b_col)
               ELSE fg(t_col) \o bg(b_col)
           glyph ==
               IF ~top_set /\ ~bot_set THEN "blank"
               ELSE IF top_set /\ ~bot_set THEN "upper"
               ELSE IF ~top_set /\ bot_set THEN "lower"
               ELSE "upper"
           last_fg ==
               IF ~top_set /\ ~bot_set THEN rn.last_fg
               ELSE IF ~top_set /\ bot_set THEN new_fg(b_col)
               ELSE new_fg(t_col)
           last_bg == IF top_set /\ bot_set THEN new_bg(b_col) ELSE rn.last_bg
           bg_is_default == IF top_set /\ bot_set THEN 0 ELSE 1
       IN  /\ term' = TermApplyAll(term, instrs)
           /\ cell_out' = [idx |-> idx, glyph |-> glyph, instrs |-> instrs,
                           before |-> term]
           /\ rn' = [rn EXCEPT !.x = rn.x + 1, !.last_fg = last_fg,
                               !.last_bg = last_bg,
                               !.bg_is_default = bg_is_default]
    /\ UNCHANGED <<dimVars, fbVars, histVars, cubeVars, lineVars>>

\* buf_render, the end of a row: ESC[0m, newline, bg_is_default = 1
RenderRowEnd ==
    /\ rn.pc = "cells"
    /\ rn.y < buf_height
    /\ rn.x >= buf_width
    /\ term' = TermApply(term, EscReset)
    /\ cell_out' = NoCell
    /\ rn' = [rn EXCEPT !.x = 0, !.y = rn.y + 1, !.bg_is_default = 1]
    /\ UNCHANGED <<dimVars, fbVars, histVars, cubeVars, lineVars>>

\* buf_render, after the last row: fflush and return
RenderEnd ==
    /\ rn.pc = "cells"
    /\ rn.y >= buf_height
    /\ rn' = [rn EXCEPT !.pc = "done"]
    /\ UNCHANGED <<term, cell_out, dimVars, fbVars, histVars, cubeVars, lineVars>>

NextRender == RenderBegin \/ RenderCell \/ RenderRowEnd \/ RenderEnd

SpecRender == InitRender /\ [][NextRender]_vars

\* what a cell has to show: glyph, foreground (when it has one), background
Required(idx) ==
    LET top_set == top_depth[idx] > SetThreshold
        bot_set == bot_depth[idx] > SetThreshold
    IN  IF ~top_set /\ ~bot_set
        THEN [glyph |-> "blank", has_fg |-> 0, fg |-> DefaultColor, bg |-> DefaultColor]
        ELSE IF top_set /\ ~bot_set
        THEN [glyph |-> "upper", has_fg |-> 1, fg |-> top_color[idx], bg |-> DefaultColor]
        ELSE IF ~top_set /\ bot_set
        THEN [glyph |-> "lower", has_fg |-> 1, fg |-> bot_color[idx], bg |-> DefaultColor]
        ELSE [glyph |-> "upper", has_fg |-> 1, fg |-> top_color[idx], bg |-> bot_color[idx]]

----------------------------------------------------------------------------
(* C4 *)

\* C4: when buf_render prints a cell's glyph, the glyph and the colors in
\* effect on the terminal are the cell's: blank on the default background for
\* an empty cell, upper half block in the top color on the default background
\* for top only, lower half block in the bottom color on the default
\* background for bottom only, upper half block in the top color on the
\* bottom color for both.
C4_CellShowsItsColors ==
    cell_out.idx >= 0 =>
        LET r == Required(cell_out.idx) IN
        /\ cell_out.glyph = r.glyph
        /\ r.has_fg = 1 => term.fg = r.fg
        /\ term.bg = r.bg

----------------------------------------------------------------------------
(* C8 *)

\* C8: buf_render emits no color instruction for a cell whose required
\* foreground and background are those of the cell to its left, and emits a
\* color instruction for a cell only when its required foreground or
\* background differs from the last one emitted.
C8_ColorStateMinimal ==
    cell_out.idx >= 0 =>
        LET idx == cell_out.idx
            r == Required(idx)
        IN  /\ (idx % buf_width > 0 /\ Required(idx - 1) = r) => cell_out.instrs = <<>>
            /\ cell_out.instrs # <<>> =>
                   \/ r.has_fg = 1 /\ r.fg # cell_out.before.fg
                   \/ r.bg # cell_out.before.bg

\* the first half of C8 alone
AdjacentEqualCellsEmitOnce ==
    cell_out.idx >= 0 =>
        LET idx == cell_out.idx IN
        (idx % buf_width > 0 /\ Required(idx - 1) = Required(idx)) => cell_out.instrs = <<>>

----------------------------------------------------------------------------
(* render_cube: transform, culling, sort, fills, silhouette edges *)

\* Vec3 as <<x, y, z>>, in camera-space units of 1.0
v3(x, y, z) == <<x, y, z>>

add(a, b) == v3(a[1] + b[1], a[2] + b[2], a[3] + b[3])

sub(a, b) == v3(a[1] - b[1], a[2] - b[2], a[3] - b[3])

scale(v, s) == v3(v[1] * s, v[2] * s, v[3] * s)

dot(a, b) == a[1] * b[1] + a[2] * b[2] + a[3] * b[3]

cross(a, b) ==
    v3(a[2] * b[3] - a[3] * b[2], a[3] * b[1] - a[1] * b[3], a[1] * b[2] - a[2] * b[1])

\* CUBE_VERTS[i], CUBE_FACES[i][k], edges[e][k] with C's indices from 0
CUBE_VERTS ==
    <<v3(-1, -1, -1), v3(1, -1, -1), v3(1, 1, -1), v3(-1, 1, -1),
      v3(-1, -1, 1), v3(1, -1, 1), v3(1, 1, 1), v3(-1, 1, 1)>>

CUBE_FACES ==
    <<<<0, 1, 2, 3>>, <<5, 4, 7, 6>>, <<4, 0, 3, 7>>,
      <<1, 5, 6, 2>>, <<3, 2, 6, 7>>, <<4, 5, 1, 0>>>>

edges ==
    <<<<0, 1>>, <<1, 2>>, <<2, 3>>, <<3, 0>>, <<4, 5>>, <<5, 6>>,
      <<6, 7>>, <<7, 4>>, <<0, 4>>, <<1, 5>>, <<2, 6>>, <<3, 7>>>>

Face(i) == CUBE_FACES[i + 1]

\* cos and sin of a rotation angle of k quarter turns
Cos4(k) == CASE k % 4 = 0 -> 1 [] k % 4 = 1 -> 0 [] k % 4 = 2 -> -1 [] k % 4 = 3 -> 0

Sin4(k) == CASE k % 4 = 0 -> 0 [] k % 4 = 1 -> 1 [] k % 4 = 2 -> 0 [] k % 4 = 3 -> -1

rot_x_apply(v, a) ==
    LET c == Cos4(a)
        s == Sin4(a)
    IN  v3(v[1], v[2] * c - v[3] * s, v[2] * s + v[3] * c)

rot_y_apply(v, a) ==
    LET c == Cos4(a)
        s == Sin4(a)
    IN  v3(v[1] * c + v[3] * s, v[2], -v[1] * s + v[3] * c)

rot_z_apply(v, a) ==
    LET c == Cos4(a)
        s == Sin4(a)
    IN  v3(v[1] * c - v[2] * s, v[1] * s + v[2] * c, v[3])

\* render_cube's vertex loop: size 1.0, the three rotations, z -= 5.0
TransformVert(i) ==
    LET v == rot_z_apply(rot_y_apply(rot_x_apply(scale(CUBE_VERTS[i + 1], 1), rot[1]),
                                     rot[2]), rot[3])
    IN  v3(v[1], v[2], v[3] - 5)

\* the face normal before normalize, the two edges crossed the other way round
FaceCrossReversed(vs, i) ==
    LET f == Face(i)
        v0 == vs[f[1] + 1]
        v1 == vs[f[2] + 1]
        v2 == vs[f[3] + 1]
    IN  cross(sub(v2, v0), sub(v1, v0))

\* the face normal before normalize: cross(edge1, edge2)
FaceCross(vs, i) ==
    LET f == Face(i)
        v0 == vs[f[1] + 1]
        v1 == vs[f[2] + 1]
        v2 == vs[f[3] + 1]
    IN  cross(sub(v1, v0), sub(v2, v0))

\* four times the face's center: the sum of its four vertices
FaceSum(vs, i) ==
    LET f == Face(i)
    IN  add(add(add(vs[f[1] + 1], vs[f[2] + 1]), vs[f[3] + 1]), vs[f[4] + 1])

\* The culling test dot(normal, to_cam) > 0.  normal and to_cam are
\* normalize(cross) and normalize(-center); both vectors are longer than
\* 1e-8 here, so each normalize divides by a positive length and the sign is
\* that of dot(cross, -(4 * center)).
FaceVisible(vs, i) == dot(FaceCross(vs, i), scale(FaceSum(vs, i), -1)) > 0

\* the Face record of face i; at quarter turns the center and the unit normal
\* are whole numbers (the cross product has length 4).  The brightness of
\* calc_light is left out: no step modelled here reads it.
FaceRecord(vs, i) ==
    LET sum == FaceSum(vs, i)
        center == v3(CDiv(sum[1], 4), CDiv(sum[2], 4), CDiv(sum[3], 4))
        cr == FaceCross(vs, i)
    IN  [idx |-> i, depth |-> center[3], center |-> center,
         normal |-> v3(CDiv(cr[1], 4), CDiv(cr[2], 4), CDiv(cr[3], 4))]

\* the exchange sort of render_cube, ascending depth (indices from 1 here)
Swap(f, i, j) == [f EXCEPT ![i] = f[j], ![j] = f[i]]

RECURSIVE SortInner(_, _, _)
SortInner(f, i, j) ==
    IF j > Len(f) THEN f
    ELSE SortInner(IF f[i].depth > f[j].depth THEN Swap(f, i, j) ELSE f, i, j + 1)

RECURSIVE SortOuter(_, _)
SortOuter(f, i) ==
    IF i >= Len(f) THEN f ELSE SortOuter(SortInner(f, i, i + 1), i + 1)

\* the fill loop's two fill_tri calls per face: vertex indices 0-1-2 and 0-2-3
RECURSIVE FillCalls(_, _)
FillCalls(fs, n) ==
    IF n > Len(fs) THEN <<>>
    ELSE LET face == Face(fs[n].idx)
         IN  <<<<face[1], face[2], face[3]>>, <<face[1], face[3], face[4]>>>>
             \o FillCalls(fs, n + 1)

\* the k loop of the edge pass: has_v0 && has_v1
HasBoth(face, v0, v1) ==
    /\ \E k \in 1 .. 4 : face[k] = v0
    /\ \E k \in 1 .. 4 : face[k] = v1

\* the f loop of the edge pass: shared
RECURSIVE Shared(_, _, _, _)
Shared(fs, n, v0, v1) ==
    IF n > Len(fs) THEN 0
    ELSE (IF HasBoth(Face(fs[n].idx), v0, v1) THEN 1 ELSE 0) + Shared(fs, n + 1, v0, v1)

\* the edge test with >= for ==
DrawsEdgeAtLeastOne(shared) == shared >= 1

\* the edge test: shared == 1
DrawsEdge(shared) == shared = 1

\* main: the angles advance; here by a quarter turn about one axis
Advance ==
    /\ cube.pc \in {"idle", "done"}
    /\ \E k \in 1 .. 3 : rot' = [rot EXCEPT ![k] = (rot[k] + 1) % 4]
    /\ verts' = <<>>
    /\ faces' = <<>>
    /\ drawn' = {}
    /\ cube' = IdleCube
    /\ UNCHANGED <<dimVars, fbVars, histVars, renderVars, lineVars>>

\* render_cube: the vertex loop
Transform ==
    /\ cube.pc = "idle"
    /\ verts' = [i \in 1 .. 8 |-> TransformVert(i - 1)]
    /\ faces' = <<>>
    /\ drawn' = {}
    /\ cube' = [pc |-> "cull", i |-> 0, e |-> 0, tris |-> <<>>]
    /\ UNCHANGED <<rot, dimVars, fbVars, histVars, renderVars, lineVars>>

\* render_cube: one iteration of the culling loop
CullFace ==
    /\ cube.pc = "cull"
    /\ cube.i < 6
    /\ faces' = IF FaceVisible(verts, cube.i)
                THEN Append(faces, FaceRecord(verts, cube.i))
                ELSE faces
    /\ cube' = [cube EXCEPT !.i = cube.i + 1]
    /\ UNCHANGED <<rot, verts, drawn, dimVars, fbVars, histVars, renderVars, lineVars>>

\* render_cube: the sort
SortFaces ==
    /\ cube.pc = "cull"
    /\ cube.i >= 6
    /\ faces' = SortOuter(faces, 1)
    /\ cube' = [cube EXCEPT !.pc = "fill"]
    /\ UNCHANGED <<rot, verts, drawn, dimVars, fbVars, histVars, renderVars, lineVars>>

\* render_cube: the fill loop, its fill_tri calls recorded
FillFaces ==
    /\ cube.pc = "fill"
    /\ cube' = [cube EXCEPT !.pc = "edges", !.e = 0, !.tris = FillCalls(faces, 1)]
    /\ UNCHANGED <<rot, verts, faces, drawn, dimVars, fbVars, histVars, renderVars,
                   lineVars>>

\* render_cube: one iteration of the edge loop, its draw_line call recorded
EdgeStep ==
    /\ cube.pc = "edges"
    /\ cube.e < 12
    /\ LET v0 == edges[cube.e + 1][1]
           v1 == edges[cube.e + 1][2]
       IN  drawn' = IF DrawsEdge(Shared(faces, 1, v0, v1))
                    THEN drawn \cup {cube.e}
                    ELSE drawn
    /\ cube' = [cube EXCEPT !.e = cube.e + 1]
    /\ UNCHANGED <<rot, verts, faces, dimVars, fbVars, histVars, renderVars, lineVars>>

\* render_cube returns
CubeReturn ==
    /\ cube.pc = "edges"
    /\ cube.e >= 12
    /\ cube' = [cube EXCEPT !.pc = "done"]
    /\ UNCHANGED <<rot, verts, faces, drawn, dimVars, fbVars, histVars, renderVars,
                   lineVars>>

----------------------------------------------------------------------------
(* SpecCube: frames of render_cube at quarter-turn angles, from angle zero *)

InitCube ==
    /\ BufReady(FbW, FbH)
    /\ RenderIdle
    /\ CubeIdle
    /\ LineIdle

NextCube ==
    Advance \/ Transform \/ CullFace \/ SortFaces \/ FillFaces \/ EdgeStep \/ CubeReturn

SpecCube == InitCube /\ [][NextCube]_vars

\* the faces that survived culling, once the culling loop has run
CullingDone == cube.pc \in {"fill", "edges", "done"} \/ (cube.pc = "cull" /\ cube.i >= 6)

Visible == {faces[n].idx : n \in 1 .. Len(faces)}

----------------------------------------------------------------------------
(* C5 *)

----------------------------------------------------------------------------
(* SpecEdges: the edge pass of render_cube over every set of surviving faces *)

\* faces[] as the culling loop leaves them when exactly the faces of S survive
RECURSIVE Survivors(_, _, _)
Survivors(vs, S, i) ==
    IF i >= 6 THEN <<>>
    ELSE (IF i \in S THEN <<FaceRecord(vs, i)>> ELSE <<>>) \o Survivors(vs, S, i + 1)

InitEdges ==
    /\ BufReady(FbW, FbH)
    /\ RenderIdle
    /\ LineIdle
    /\ rot = <<0, 0, 0>>
    /\ verts = [i \in 1 .. 8 |-> TransformVert(i - 1)]
    /\ \E S \in SUBSET (0 .. 5) :
           /\ faces = SortOuter(Survivors(verts, S, 0), 1)
           /\ cube = [pc |-> "edges", i |-> 6, e |-> 0,
                      tris |-> FillCalls(faces, 1)]
    /\ drawn = {}

NextEdges == EdgeStep \/ CubeReturn

SpecEdges == InitEdges /\ [][NextEdges]_vars

\* the surviving faces that contain both endpoints of edge e
FacesOnEdge(e) ==
    {i \in Visible : {edges[e + 1][1], edges[e + 1][2]} \subseteq
                         {Face(i)[k] : k \in 1 .. 4}}

----------------------------------------------------------------------------
(* C6 *)

\* C6: for every set of surviving faces and each of the 12 edges, the edge
\* pass hands the edge to draw_line if and only if exactly one surviving face
\* contains both of its endpoints.
C6_SilhouetteEdges ==
    cube.pc \in {"edges", "done"} =>
        \A e \in 0 .. (cube.e - 1) :
            e \in drawn <=> Cardinality(FacesOnEdge(e)) = 1

\* the edge pass is over, having met edges of zero, one and two surviving faces
C6_Witness ==
    /\ cube.pc = "done"
    /\ \E e \in 0 .. 11 : Cardinality(FacesOnEdge(e)) = 0 /\ e \notin drawn
    /\ \E e \in 0 .. 11 : Cardinality(FacesOnEdge(e)) = 1 /\ e \in drawn
    /\ \E e \in 0 .. 11 : Cardinality(FacesOnEdge(e)) = 2 /\ e \notin drawn

----------------------------------------------------------------------------
(* project and draw_line *)

\* the window of project: -0.5 and -100.0
NearZ == -100

FarZ == -20000

\* project's test with the near plane itself let through
ProjectOkOpenNear(p) == ~(p[3] > NearZ \/ p[3] <= FarZ)

\* project's return value for the point p = <<x, y, z>>, all three in ZUnit steps
ProjectOk(p) == ~(p[3] >= NearZ \/ p[3] <= FarZ)

\* min_dim of project
MinDim == Min(buf_width, 2 * buf_height)

\* 10000 * scale: min_dim * 0.38 * zoom
Scale10k == MinDim * 38 * zoom

\* project's *x and *y in half sub-pixels, rounded toward zero:
\*   2 * (p.x * (-5.0 / p.z) * scale + width * 0.5)
\* = p[1] * Scale10k / (1000 * -p[3]) + width
ProjectX(p) == CDiv(p[1] * Scale10k, 1000 * (-p[3])) + buf_width

ProjectY(p) == CDiv(-p[2] * Scale10k, 1000 * (-p[3])) + 2 * buf_height

\* project's *z
ProjectZ(p) == p[3]

\* (int) of a coordinate held in half sub-pixels
ToInt(h) == CDiv(h, 2)

\* sx and sy, reversed
StepDirReversed(a, b) == IF a < b THEN -1 ELSE 1

\* sx and sy of draw_line, from the coordinates before (int)
StepDir(a, b) == IF a < b THEN 1 ELSE -1

\* the depth after n steps: z0 + n * dz, dz = (z1 - z0) / steps
DepthAt(l, n) ==
    LET steps == Max(l.dx, l.dy)
    IN  IF steps > 0 THEN l.z0 + CDiv(n * (l.z1 - l.z0), steps) ELSE l.z0

\* the tail of the loop body: the two error tests and z += dz
Advanced(l) ==
    LET e2 == l.err * 2
        stepx == e2 > -l.dy
        stepy == e2 < l.dx
    IN  [l EXCEPT !.err = l.err - (IF stepx THEN l.dy ELSE 0) + (IF stepy THEN l.dx ELSE 0),
                  !.x = l.x + (IF stepx THEN l.sx ELSE 0),
                  !.y = l.y + (IF stepy THEN l.sy ELSE 0),
                  !.z = DepthAt(l, l.nsteps + 1),
                  !.nsteps = l.nsteps + 1]

\* the framebuffer of SpecLine
LnW == 4

LnH == 2

\* endpoints: x, y in {-1.0, 0, 1.0}; z at, beside and between the two planes,
\* and at and beyond zero
LineXY == {-200, 0, 200}

LineZ == {-20200, -20000, -19999, -1000, -101, -100, -99, 0, 100}

LinePoints == {<<x, y, z>> : x \in LineXY, y \in LineXY, z \in LineZ}

\* zoom: the default 0.6 and the upper clamp 5.0 of handle_input
Zooms == {DefaultZoom, 500}

InitLine ==
    /\ BufReady(LnW, LnH)
    /\ RenderIdle
    /\ CubeIdle
    /\ zoom \in Zooms
    /\ ln = IdleLine
    /\ frag = NoFrag

\* draw_line up to the loop: the two project calls (the second only when the
\* first accepts) and the locals
draw_line_begin ==
    /\ ln.pc = "idle"
    /\ \E p0 \in LinePoints, p1 \in LinePoints :
           LET ok0 == IF ProjectOk(p0) THEN 1 ELSE 0
               ok1 == IF ok0 = 1 /\ ProjectOk(p1) THEN 1 ELSE 0
           IN  IF ok0 = 0 \/ ok1 = 0
               THEN ln' = [IdleLine EXCEPT
                              !.pc = "rejected", !.p0 = p0, !.p1 = p1,
                              !.ok0 = ok0, !.ok1 = ok1,
                              !.x0 = IF ok0 = 1 THEN ProjectX(p0) ELSE 0,
                              !.y0 = IF ok0 = 1 THEN ProjectY(p0) ELSE 0,
                              !.z0 = IF ok0 = 1 THEN ProjectZ(p0) ELSE 0]
               ELSE LET x0 == ProjectX(p0)
                        y0 == ProjectY(p0)
                        x1 == ProjectX(p1)
                        y1 == ProjectY(p1)
                        dx == Abs(ToInt(x1) - ToInt(x0))
                        dy == Abs(ToInt(y1) - ToInt(y0))
                    IN  ln' = [pc |-> "loop", p0 |-> p0, p1 |-> p1,
                               ok0 |-> 1, ok1 |-> 1,
                               x0 |-> x0, y0 |-> y0, z0 |-> ProjectZ(p0),
                               x1 |-> x1, y1 |-> y1, z1 |-> ProjectZ(p1),
                               dx |-> dx, dy |-> dy,
                               sx |-> StepDir(x0, x1), sy |-> StepDir(y0, y1),
                               err |-> dx - dy,
                               x |-> ToInt(x0), y |-> ToInt(y0), z |-> ProjectZ(p0),
                               nsteps |-> 0]
    /\ frag' = NoFrag
    /\ UNCHANGED <<zoom, dimVars, fbVars, histVars, renderVars, cubeVars>>

\* draw_line, one iteration of the loop: the put_pixel call (recorded in frag),
\* then break at the second endpoint or the step
draw_line_step ==
    /\ ln.pc = "loop"
    /\ LET py == CellRow(ln.y)
           is_top == IsTop(ln.y)
       IN  frag' = IF py >= 0 /\ py < buf_height
                   THEN [called |-> 1, x |-> ln.x, py |-> py, is_top |-> is_top,
                         depth |-> ln.z + LineBias]
                   ELSE NoFrag
    /\ ln' = IF ln.x = ToInt(ln.x1) /\ ln.y = ToInt(ln.y1)
             THEN [ln EXCEPT !.pc = "done"]
             ELSE Advanced(ln)
    /\ UNCHANGED <<zoom, dimVars, fbVars, histVars, renderVars, cubeVars>>

\* draw_line returns: after the break, or at once when project rejects
draw_line_return ==
    /\ ln.pc \in {"done", "rejected"}
    /\ ln' = IdleLine
    /\ frag' = NoFrag
    /\ UNCHANGED <<zoom, dimVars, fbVars, histVars, renderVars, cubeVars>>

NextLine == draw_line_begin \/ draw_line_step \/ draw_line_return

SpecLine == InitLine /\ [][NextLine]_vars

----------------------------------------------------------------------------
(* C7 *)

\* z of a point, compared with the numbers of the claim
InNearBand(p) == 2 * p[3] >= -ZUnit /\ p[3] <= 0

BeyondFar(p) == p[3] <= -100 * ZUnit

AtOrPastNear(p) == 2 * p[3] >= -ZUnit

\* C7 as stated: project returns 0 exactly for z in [-0.5, 0] or z <= -100, and
\* returns 1 with the depth output equal to z for every other point.
C7_RejectsBandOnly ==
    ln.pc # "idle" =>
        /\ ln.ok0 = 0 <=> (InNearBand(ln.p0) \/ BeyondFar(ln.p0))
        /\ ln.ok0 = 1 => ln.z0 = ln.p0[3]
        /\ ln.ok0 = 1 =>
               /\ ln.ok1 = 0 <=> (InNearBand(ln.p1) \/ BeyondFar(ln.p1))
               /\ ln.ok1 = 1 => ln.z1 = ln.p1[3]

\* C7 amended: project returns 0 exactly for z >= -0.5 (z above 0 included) or
\* z <= -100, and returns 1 with the depth output equal to z for every other
\* point, that is for -100 < z < -0.5.
C7_RejectsOutsideOpenWindow ==
    ln.pc # "idle" =>
        /\ ln.ok0 = 0 <=> (AtOrPastNear(ln.p0) \/ BeyondFar(ln.p0))
        /\ ln.ok0 = 1 => ln.z0 = ln.p0[3]
        /\ ln.ok0 = 1 =>
               /\ ln.ok1 = 0 <=> (AtOrPastNear(ln.p1) \/ BeyondFar(ln.p1))
               /\ ln.ok1 = 1 => ln.z1 = ln.p1[3]

\* project has accepted a point just inside the near plane and then rejected
\* one with z above zero
C7_Witness ==
    /\ ln.pc = "rejected"
    /\ ln.ok0 = 1 /\ ln.p0[3] = NearZ - 1
    /\ ln.ok1 = 0 /\ ln.p1[3] > 0

----------------------------------------------------------------------------
(* C10 *)

\* C10: for endpoints that project accepts, the loop of draw_line ends after
\* exactly max(dx, dy) steps from ((int)x0, (int)y0), with dx, dy the absolute
\* differences of the truncated coordinates, and the last sub-pixel it visits
\* is ((int)x1, (int)y1): the walk never takes more steps than that, is at the
\* second endpoint (where the loop breaks) once it has taken them, and has
\* taken exactly that many when it breaks.
C10_LineWalkEnds ==
    ln.pc \in {"loop", "done"} =>
        LET steps == Max(ln.dx, ln.dy)
            at_end == ln.x = ToInt(ln.x1) /\ ln.y = ToInt(ln.y1)
        IN  /\ ln.dx = Abs(ToInt(ln.x1) - ToInt(ln.x0))
            /\ ln.dy = Abs(ToInt(ln.y1) - ToInt(ln.y0))
            /\ ln.nsteps <= steps
            /\ ln.nsteps = steps => at_end
            /\ ln.pc = "done" => ln.nsteps = steps /\ at_end

\* a walk that has ended after steps in both directions, more in one than in
\* the other
C10_Witness ==
    /\ ln.pc = "done"
    /\ ln.dx > 2
    /\ ln.dy > ln.dx
    /\ ln.nsteps = ln.dy

\* a step of a walk issues put_pixel from sub-pixel row -1
LineWritesFromRowMinusOne ==
    ln.pc \in {"loop", "done"} /\ frag.called = 1 /\ frag.py = 0 /\ frag.is_top = 0
    /\ frag.x >= 0 /\ frag.x < buf_width /\ ln.nsteps > 0 /\ ln.dx = 0 /\ ln.sy = 1
    /\ ln.y = 0 /\ ToInt(ln.y0) < -1

============================================================================
